---- MODULE Spec2Model ----
(***************************************************************************)
(* Swap quoting of cardex pool states, cardex/dexs/abstract_classes.py:    *)
(* the lazily decoded pool datum, the constant-product quote and the       *)
(* stable-swap quote.                                                      *)
(*                                                                         *)
(* Python integers are unbounded, so the products of the constant-product  *)
(* price impact are computed on naturals held as little-endian sequences   *)
(* of limbs of Base.  Python floats (the stable-swap path and the price    *)
(* impact) are modelled as signed decimal fixed-point numbers with a       *)
(* resolution of 1/Base, the resolution of the basis-point fee, each       *)
(* operation truncated toward zero.  A division whose divisor is zero      *)
(* raises ZeroDivisionError as in Python, for integers and floats alike.   *)
(* On every pool and bag within the bounds, and one beyond them, the       *)
(* status and the output quantity of both quotes agree with the Python     *)
(* source run on the same inputs.                                          *)
(***************************************************************************)
EXTENDS Integers, Sequences, FiniteSets, TLC

(* ---------------------------- bounds ----------------------------------- *)
MaxReserve == 3
MaxQty == 3
MaxAccess == 2
MaxCalls == 2

(* ----------------------- program constants ----------------------------- *)
FEE_DENOMINATOR == 10000
AMP == 75
N_COINS == 2
MAX_ITER == 256

(* ------------------- unbounded naturals (limbs) ------------------------ *)
Base == 10 ^ 4

RECURSIVE Norm(_)
Norm(a) == IF a = <<>> THEN <<>>
           ELSE IF a[Len(a)] = 0 THEN Norm(SubSeq(a, 1, Len(a) - 1))
           ELSE a

RECURSIVE Big(_)
Big(n) == IF n = 0 THEN <<>> ELSE <<n % Base>> \o Big(n \div Base)

RECURSIVE BigAddC(_, _, _)
BigAddC(a, b, carry) ==
    IF a = <<>> /\ b = <<>> THEN (IF carry = 0 THEN <<>> ELSE <<carry>>)
    ELSE LET x == IF a = <<>> THEN 0 ELSE Head(a)
             y == IF b = <<>> THEN 0 ELSE Head(b)
             s == x + y + carry
         IN  <<s % Base>> \o BigAddC(IF a = <<>> THEN <<>> ELSE Tail(a),
                                     IF b = <<>> THEN <<>> ELSE Tail(b),
                                     s \div Base)

BigAdd(a, b) == Norm(BigAddC(a, b, 0))

RECURSIVE BigCmpFrom(_, _, _)
BigCmpFrom(a, b, i) ==
    IF i = 0 THEN 0
    ELSE IF a[i] < b[i] THEN -1
    ELSE IF a[i] > b[i] THEN 1
    ELSE BigCmpFrom(a, b, i - 1)

BigCmp(a, b) ==
    IF Len(a) < Len(b) THEN -1
    ELSE IF Len(a) > Len(b) THEN 1
    ELSE BigCmpFrom(a, b, Len(a))

BigLess(a, b) == BigCmp(a, b) = -1
BigLeq(a, b) == BigCmp(a, b) # 1

RECURSIVE BigSubB(_, _, _)
BigSubB(a, b, borrow) ==
    IF a = <<>> THEN <<>>
    ELSE LET y == IF b = <<>> THEN 0 ELSE Head(b)
             d == Head(a) - y - borrow
         IN  <<IF d < 0 THEN d + Base ELSE d>>
             \o BigSubB(Tail(a), IF b = <<>> THEN <<>> ELSE Tail(b),
                        IF d < 0 THEN 1 ELSE 0)

BigSub(a, b) == Norm(BigSubB(a, b, 0))

RECURSIVE BigMulSmallC(_, _, _)
BigMulSmallC(a, d, carry) ==
    IF a = <<>> THEN (IF carry = 0 THEN <<>> ELSE <<carry>>)
    ELSE LET p == Head(a) * d + carry
         IN  <<p % Base>> \o BigMulSmallC(Tail(a), d, p \div Base)

BigMulSmall(a, d) == Norm(BigMulSmallC(a, d, 0))

RECURSIVE BigMul(_, _)
BigMul(a, b) ==
    IF b = <<>> \/ a = <<>> THEN <<>>
    ELSE BigAdd(BigMulSmall(a, Head(b)),
                LET r == BigMul(a, Tail(b)) IN IF r = <<>> THEN <<>> ELSE <<0>> \o r)

RECURSIVE QuotDigit(_, _, _, _)
QuotDigit(rem, b, lo, hi) ==
    IF lo = hi THEN lo
    ELSE LET mid == (lo + hi + 1) \div 2
         IN  IF BigLeq(BigMulSmall(b, mid), rem)
             THEN QuotDigit(rem, b, mid, hi)
             ELSE QuotDigit(rem, b, lo, mid - 1)

RECURSIVE BigDivFrom(_, _, _, _)
BigDivFrom(a, b, i, rem) ==
    IF i = 0 THEN <<>>
    ELSE LET r == Norm(<<a[i]>> \o rem)
             q == IF BigLess(r, b) THEN 0 ELSE QuotDigit(r, b, 1, Base - 1)
         IN  BigDivFrom(a, b, i - 1, BigSub(r, BigMulSmall(b, q))) \o <<q>>

BigDiv(a, b) == Norm(BigDivFrom(a, b, Len(a), <<>>))

RECURSIVE BigToInt(_)
BigToInt(a) == IF a = <<>> THEN 0 ELSE Head(a) + Base * BigToInt(Tail(a))


(* ------------- floats as signed fixed-point numbers -------------------- *)
(* A float is [neg, mag]: mag counts units of 1/Base, zero is never        *)
(* negative.                                                               *)
ShiftUp(a) == IF a = <<>> THEN <<>> ELSE <<0>> \o a
ShiftDown(a) == IF a = <<>> THEN <<>> ELSE Tail(a)

Fx(neg, mag) == [neg |-> neg /\ mag # <<>>, mag |-> mag]
FxZero == Fx(FALSE, <<>>)
FxOfInt(n) == IF n < 0 THEN Fx(TRUE, ShiftUp(Big(-n))) ELSE Fx(FALSE, ShiftUp(Big(n)))
FxNeg(a) == Fx(~a.neg, a.mag)
FxAdd(a, b) ==
    IF a.neg = b.neg THEN Fx(a.neg, BigAdd(a.mag, b.mag))
    ELSE IF BigLeq(b.mag, a.mag) THEN Fx(a.neg, BigSub(a.mag, b.mag))
    ELSE Fx(b.neg, BigSub(b.mag, a.mag))
FxSub(a, b) == FxAdd(a, FxNeg(b))
FxMul(a, b) == Fx(a.neg # b.neg, ShiftDown(BigMul(a.mag, b.mag)))
FxMulInt(a, n) == Fx(a.neg, BigMul(a.mag, Big(n)))
FxIsZero(a) == a.mag = <<>>
\* a / b for b # 0
FxDiv(a, b) == Fx(a.neg # b.neg, BigDiv(ShiftUp(a.mag), b.mag))
\* abs(a) < 1
FxAbsLessOne(a) == Len(a.mag) <= 1
\* int(a): truncation toward zero
FxToInt(a) == IF a.neg THEN -BigToInt(ShiftDown(a.mag)) ELSE BigToInt(ShiftDown(a.mag))

(* --------------------------- asset bags -------------------------------- *)
(* An Assets bag is an insertion-ordered mapping unit -> quantity: a       *)
(* sequence of entries with distinct units.  unit() and quantity() read    *)
(* the first entry.                                                        *)
Units == {"A", "B", "X"}
Entry(u, q) == [unit |-> u, qty |-> q]
Assets(u, q) == <<Entry(u, q)>>
unit(asset) == asset[1].unit
quantity(asset) == asset[1].qty

SingleBags == {Assets(u, q) : u \in Units, q \in 0..MaxQty}
DoubleBags == {<<Entry(u, 1), Entry(v, 1)>> : u \in Units, v \in Units} \
              {<<Entry(u, 1), Entry(u, 1)>> : u \in Units}
InputBags == SingleBags \cup DoubleBags

(* ---------------------------- pool state ------------------------------- *)
Curves == {"constant_product", "stable_swap"}
Fees == {0, 30, FEE_DENOMINATOR - 1}
Pools == [curve : Curves, unit_a : {"A"}, unit_b : {"B"},
          reserve_a : 0..MaxReserve, reserve_b : 0..MaxReserve,
          volume_fee : Fees]

(* A quote outcome.  status is "ok" (the call returned), "InvalidInput"    *)
(* (AssertionError / ValueError of the validation) or "ZeroDivisionError". *)
(* asset is the caller's bag as the call leaves it.  The remaining fields  *)
(* record the integers the constant-product path computed.                 *)
Outcome(status, asset, out, impact, divided, num, den, pnum, pden) ==
    [status |-> status, asset |-> asset, out |-> out, price_impact |-> impact,
     divided |-> divided, numerator |-> num, denominator |-> den,
     price_numerator |-> pnum, price_denominator |-> pden]
Raise(status, asset) ==
    Outcome(status, asset, <<>>, FxZero, FALSE, <<>>, <<>>, FxZero, <<>>)

(* ---------------------- constant-product quote ------------------------- *)
\* the two asserts; a failed assert is the InvalidInput condition
ValidInput(pool, asset) ==
    /\ Len(asset) = 1
    /\ unit(asset) \in {pool.unit_a, pool.unit_b}

\* Faulty variant of Reserves: the two sides exchanged.
ReservesSwapped(pool, asset) ==
    IF unit(asset) = pool.unit_a
    THEN [reserve_in |-> pool.reserve_b, reserve_out |-> pool.reserve_a,
          unit_out |-> pool.unit_b]
    ELSE [reserve_in |-> pool.reserve_a, reserve_out |-> pool.reserve_b,
          unit_out |-> pool.unit_a]

\* reserve_in, reserve_out, unit_out by the side supplied
Reserves(pool, asset) ==
    IF unit(asset) = pool.unit_a
    THEN [reserve_in |-> pool.reserve_a, reserve_out |-> pool.reserve_b,
          unit_out |-> pool.unit_b]
    ELSE [reserve_in |-> pool.reserve_b, reserve_out |-> pool.reserve_a,
          unit_out |-> pool.unit_a]

\* 10000 - volume_fee; volume_fee is the pool's fee in basis points, read by
\* a call on the constant-product path and as an attribute on the
\* stable-swap path.
fee_modifier(pool) == FEE_DENOMINATOR - pool.volume_fee

\* Faulty variant of Numerator: the input quantity left out.
NumeratorNoQuantity(pool, asset) ==
    BigMul(Big(fee_modifier(pool)), Big(Reserves(pool, asset).reserve_out))

\* asset.quantity() * fee_modifier * reserve_out
Numerator(pool, asset) ==
    BigMul(BigMul(Big(quantity(asset)), Big(fee_modifier(pool))),
           Big(Reserves(pool, asset).reserve_out))

\* asset.quantity() * fee_modifier + reserve_in * 10000
Denominator(pool, asset) ==
    BigAdd(BigMul(Big(quantity(asset)), Big(fee_modifier(pool))),
           BigMul(Big(Reserves(pool, asset).reserve_in), Big(FEE_DENOMINATOR)))

\* Faulty variant of FloorDiv: rounds to nearest.
RoundDiv(n, d) == BigDiv(BigAdd(BigMulSmall(n, 2), d), BigMulSmall(d, 2))

\* Python's n // d on non-negative n and positive d
FloorDiv(n, d) == BigDiv(n, d)

\* Faulty variant of ZeroOutput: no short-circuit.
ZeroOutputNever(amount_out) == FALSE

\* if amount_out.quantity() == 0: return amount_out, 0
ZeroOutput(amount_out) == amount_out = 0

\* Faulty variant of PriceNumerator: 10000 in place of fee_modifier.
PriceNumeratorNoFee(pool, asset) ==
    LET r == Reserves(pool, asset)
        left == BigMul(BigMul(BigMul(Big(r.reserve_out), Big(quantity(asset))),
                              Denominator(pool, asset)), Big(FEE_DENOMINATOR))
        right == BigMul(BigMul(Numerator(pool, asset), Big(r.reserve_in)),
                        Big(FEE_DENOMINATOR))
    IN  IF BigLeq(right, left) THEN Fx(FALSE, BigSub(left, right))
        ELSE Fx(TRUE, BigSub(right, left))

\* reserve_out * q * denominator * fee_modifier - numerator * reserve_in * 10000,
\* as a signed integer [neg, mag]
PriceNumerator(pool, asset) ==
    LET r == Reserves(pool, asset)
        left == BigMul(BigMul(BigMul(Big(r.reserve_out), Big(quantity(asset))),
                              Denominator(pool, asset)), Big(fee_modifier(pool)))
        right == BigMul(BigMul(Numerator(pool, asset), Big(r.reserve_in)),
                        Big(FEE_DENOMINATOR))
    IN  IF BigLeq(right, left) THEN Fx(FALSE, BigSub(left, right))
        ELSE Fx(TRUE, BigSub(right, left))

\* reserve_out * q * denominator * 10000
PriceDenominator(pool, asset) ==
    BigMul(BigMul(BigMul(Big(Reserves(pool, asset).reserve_out), Big(quantity(asset))),
                  Denominator(pool, asset)), Big(FEE_DENOMINATOR))

ConstantProductGetAmountOut(pool, asset) ==
    IF ~ValidInput(pool, asset) THEN Raise("InvalidInput", asset)
    ELSE LET r == Reserves(pool, asset)
             numerator == Numerator(pool, asset)
             denominator == Denominator(pool, asset)
         IN  IF denominator = <<>> THEN Raise("ZeroDivisionError", asset)
             ELSE LET amount_out == BigToInt(FloorDiv(numerator, denominator))
                      out == Assets(r.unit_out, amount_out)
                  IN  IF ZeroOutput(amount_out)
                      THEN Outcome("ok", asset, out, FxZero, FALSE,
                                   numerator, denominator, FxZero, <<>>)
                      ELSE LET pn == PriceNumerator(pool, asset)
                               pd == PriceDenominator(pool, asset)
                           IN  IF pd = <<>>
                               THEN Outcome("ZeroDivisionError", asset, <<>>, FxZero,
                                            TRUE, numerator, denominator, pn, pd)
                               ELSE Outcome("ok", asset, out,
                                            Fx(pn.neg, BigDiv(ShiftUp(pn.mag), pd)),
                                            TRUE, numerator, denominator, pn, pd)

(* ------------------------ stable-swap quote ---------------------------- *)
\* Ann = amp * N_COINS**N_COINS
Ann == AMP * N_COINS ^ N_COINS

Value(v) == [err |-> FALSE, val |-> v]
DivisionByZero == [err |-> TRUE, val |-> FxZero]

\* One pass of the loop body of _get_D and the passes after it; i passes
\* have run before.  _get_D runs before _get_y validates its input.
RECURSIVE get_D_loop(_, _, _)
get_D_loop(pool, D, i) ==
    IF i = MAX_ITER THEN Value(D)
    ELSE LET S == pool.reserve_a + pool.reserve_b
             d1 == N_COINS ^ N_COINS * pool.reserve_a * pool.reserve_b
         IN  IF d1 = 0 THEN DivisionByZero
             ELSE LET D_P == FxDiv(FxMul(FxMul(D, D), D), FxOfInt(d1))
                      top == FxMul(D, FxAdd(FxOfInt(Ann * S), FxMulInt(D_P, N_COINS)))
                      d2 == FxAdd(FxMulInt(D, Ann - 1), FxMulInt(D_P, N_COINS + 1))
                  IN  IF FxIsZero(d2) THEN DivisionByZero
                      ELSE LET D_next == FxDiv(top, d2)
                           IN  IF FxAbsLessOne(FxSub(D_next, D)) THEN Value(D_next)
                               ELSE get_D_loop(pool, D_next, i + 1)

get_D(pool) ==
    LET S == pool.reserve_a + pool.reserve_b
    IN  IF S = 0 THEN Value(FxZero) ELSE get_D_loop(pool, FxOfInt(S), 0)

RECURSIVE get_y_loop(_, _, _, _, _)
get_y_loop(out, b, c, D, i) ==
    IF i = MAX_ITER THEN Value(out)
    ELSE LET d == FxSub(FxAdd(FxMulInt(out, 2), b), D)
         IN  IF FxIsZero(d) THEN DivisionByZero
             ELSE LET out_next == FxDiv(FxAdd(FxMul(out, out), c), d)
                  IN  IF FxAbsLessOne(FxSub(out_next, out)) THEN Value(out_next)
                      ELSE get_y_loop(out_next, b, c, D, i + 1)

\* The validation of _get_y: TRUE when it raises ValueError.
get_y_invalid(pool, in_assets, out_unit) ==
    \/ Len(in_assets) > 1
    \/ unit(in_assets) \notin {pool.unit_a, pool.unit_b}
    \/ out_unit \notin {pool.unit_a, pool.unit_b}

get_y_raise == [status |-> "ZeroDivisionError", out |-> <<>>]

\* return Assets(**{out_unit: int(out)}), or the division by zero of the loop
get_y_return(y, out_unit) ==
    IF y.err THEN get_y_raise
    ELSE [status |-> "ok", out |-> Assets(out_unit, FxToInt(y.val))]

\* c = D**3 / (N_COINS**2 * Ann * in_reserve); b = S + D / Ann; the loop
get_y_solve(D, in_reserve, out_unit) ==
    IF FxIsZero(FxMulInt(in_reserve, N_COINS ^ 2 * Ann)) THEN get_y_raise
    ELSE get_y_return(
             get_y_loop(D,
                        FxAdd(in_reserve, FxDiv(D, FxOfInt(Ann))),
                        FxDiv(FxMul(FxMul(D, D), D),
                              FxMulInt(in_reserve, N_COINS ^ 2 * Ann)),
                        D, 0),
             out_unit)

\* in_quantity = in_assets.quantity() * (10000 - self.volume_fee) / 10000
in_quantity(pool, in_assets) ==
    FxDiv(FxOfInt(quantity(in_assets) * fee_modifier(pool)), FxOfInt(FEE_DENOMINATOR))

\* in_reserve: the reserve of the input side plus in_quantity
in_reserve(pool, in_assets) ==
    FxAdd(FxOfInt(IF unit(in_assets) = pool.unit_a THEN pool.reserve_a
                  ELSE pool.reserve_b),
          in_quantity(pool, in_assets))

\* _get_y from its validation on; D is what self._get_D() gave.
get_y_with_D(pool, in_assets, out_unit, D) ==
    IF D.err THEN get_y_raise
    ELSE IF get_y_invalid(pool, in_assets, out_unit)
    THEN [status |-> "InvalidInput", out |-> <<>>]
    ELSE get_y_solve(D.val, in_reserve(pool, in_assets), out_unit)

\* _get_y: [status, out]; out is the bag {out_unit: int(out)}.
get_y(pool, in_assets, out_unit) ==
    get_y_with_D(pool, in_assets, out_unit, get_D(pool))

\* Faulty variant of SetQuantity: the bag written is the caller's bag.
SetQuantityAliased(asset, out_asset, value) ==
    [asset |-> <<Entry(unit(asset), value)>> \o Tail(asset),
     out |-> <<Entry(unit(asset), value)>> \o Tail(asset)]

\* out_asset.__root__[out_asset.unit()] = value, on the bag _get_y built;
\* the caller's bag is another object and is left as it is.
SetQuantity(asset, out_asset, value) ==
    [asset |-> asset,
     out |-> <<Entry(unit(out_asset), value)>> \o Tail(out_asset)]

\* return out_asset, 0
StableSwapReturn(w) ==
    Outcome("ok", w.asset, w.out, FxZero, FALSE, <<>>, <<>>, FxZero, <<>>)

\* get_amount_out from the return of _get_y on
StableSwapCombine(pool, asset, out_unit, y) ==
    IF y.status # "ok" THEN Raise(y.status, asset)
    ELSE StableSwapReturn(
             SetQuantity(asset, y.out,
                         (IF out_unit = pool.unit_b THEN pool.reserve_b
                          ELSE pool.reserve_a) - quantity(y.out)))

out_unit_of(pool, asset) ==
    IF unit(asset) = pool.unit_b THEN pool.unit_a ELSE pool.unit_b

StableSwapGetAmountOut(pool, asset) ==
    StableSwapCombine(pool, asset, out_unit_of(pool, asset),
                      get_y(pool, asset, out_unit_of(pool, asset)))

get_amount_out(pool, asset) ==
    IF pool.curve = "constant_product" THEN ConstantProductGetAmountOut(pool, asset)
    ELSE StableSwapGetAmountOut(pool, asset)

(* --------------------------- pool datum -------------------------------- *)
\* A falsy datum_cbor / datum_parsed (None, empty) and the decoded object.
NoCbor == ""
None == <<>>
from_cbor(cbor) == <<"PlutusData", cbor>>
Cbors == {NoCbor, "d87980"}

\* Faulty variant of pool_datum: the decoded datum is not stored.
pool_datum_uncached(parsed, cbor) ==
    IF parsed = None
    THEN IF cbor = NoCbor
         THEN [datum_parsed |-> parsed, status |-> "MissingDatum", value |-> None,
               decoded |-> FALSE]
         ELSE [datum_parsed |-> parsed, status |-> "ok", value |-> from_cbor(cbor),
               decoded |-> TRUE]
    ELSE [datum_parsed |-> parsed, status |-> "ok", value |-> parsed, decoded |-> FALSE]

\* The property pool_datum: the field after the access, what the access
\* returned or raised, and whether it called the decoder.
pool_datum(parsed, cbor) ==
    IF parsed = None
    THEN IF cbor = NoCbor
         THEN [datum_parsed |-> parsed, status |-> "MissingDatum", value |-> None,
               decoded |-> FALSE]
         ELSE [datum_parsed |-> from_cbor(cbor), status |-> "ok",
               value |-> from_cbor(cbor), decoded |-> TRUE]
    ELSE [datum_parsed |-> parsed, status |-> "ok", value |-> parsed, decoded |-> FALSE]

(* --------------------------- state machine ----------------------------- *)
VARIABLES
    pool,           \* the pool-state instance: curve, units, reserves, fee
    datum_cbor,     \* its raw datum encoding
    datum_parsed,   \* its cached decoded datum
    accesses,       \* history: the outcome of each pool_datum access so far
    asset,          \* the caller's input bag
    calls,          \* history: get_amount_out calls made with that bag
    result          \* the outcome of the last get_amount_out call

vars == <<pool, datum_cbor, datum_parsed, accesses, asset, calls, result>>

NoResult == Raise("none", <<>>)

\* A pool and a trade of realistic magnitude: reserves 1_000_000 each, fee
\* 30, 1000 of unit_a supplied.
ScenarioPool ==
    [curve |-> "constant_product", unit_a |-> "A", unit_b |-> "B",
     reserve_a |-> 1000000, reserve_b |-> 1000000, volume_fee |-> 30]
ScenarioBag == Assets("A", 1000)

Init ==
    /\ \/ pool \in Pools /\ asset \in InputBags
       \/ pool = ScenarioPool /\ asset = ScenarioBag
    /\ datum_cbor \in Cbors
    /\ datum_parsed = None
    /\ accesses = <<>>
    /\ calls = 0
    /\ result = NoResult

\* pool.get_amount_out(asset)
GetAmountOut ==
    /\ calls < MaxCalls
    /\ result' = get_amount_out(pool, asset)
    /\ asset' = result'.asset
    /\ calls' = calls + 1
    /\ UNCHANGED <<pool, datum_cbor, datum_parsed, accesses>>

\* pool.pool_datum
PoolDatum ==
    /\ Len(accesses) < MaxAccess
    /\ LET r == pool_datum(datum_parsed, datum_cbor)
       IN  /\ datum_parsed' = r.datum_parsed
           /\ accesses' = Append(accesses, [status |-> r.status, value |-> r.value,
                                            decoded |-> r.decoded])
    /\ UNCHANGED <<pool, datum_cbor, asset, calls, result>>

Next == GetAmountOut \/ PoolDatum

Spec == Init /\ [][Next]_vars

\* The quotes alone and the datum accesses alone, from the same initial states.
SpecQuote == Init /\ [][GetAmountOut]_vars
SpecDatum == Init /\ [][PoolDatum]_vars

(* ------------------------------ claims --------------------------------- *)
\* What a claim says of the last call, read off the pool and the bag.
Called == calls >= 1
ConstantProduct == pool.curve = "constant_product"
StableSwap == pool.curve = "stable_swap"
SingleOfPool == Len(asset) = 1 /\ asset[1].unit \in {pool.unit_a, pool.unit_b}
Q == asset[1].qty
RIn == IF asset[1].unit = pool.unit_a THEN pool.reserve_a ELSE pool.reserve_b
ROut == IF asset[1].unit = pool.unit_a THEN pool.reserve_b ELSE pool.reserve_a
UOut == IF asset[1].unit = pool.unit_a THEN pool.unit_b ELSE pool.unit_a
FM == FEE_DENOMINATOR - pool.volume_fee
Num == BigMul(BigMul(Big(Q), Big(FM)), Big(ROut))
Den == BigAdd(BigMul(Big(Q), Big(FM)), BigMul(Big(RIn), Big(FEE_DENOMINATOR)))
Returned == result.status = "ok"
AmountOut == result.out[1].qty

C2_StrictlyBelowReserve ==
    (ConstantProduct /\ Called /\ SingleOfPool /\ Q > 0) =>
        (Returned /\ AmountOut < ROut)

\* C2 amended: for every positive input amount_out never exceeds
\* reserve_out, and is strictly less when both reserves are positive.
C2_BelowReserve ==
    (ConstantProduct /\ Called /\ SingleOfPool /\ Q > 0) =>
        /\ Returned
        /\ AmountOut <= ROut
        /\ (RIn > 0 /\ ROut > 0) => AmountOut < ROut

\* C2 witness: a positive input against two positive reserves that buys
\* something.
C2_Witness ==
    /\ ConstantProduct /\ Called /\ SingleOfPool /\ Q > 0 /\ Returned
    /\ RIn > 0 /\ ROut > 0
    /\ AmountOut > 0

\* C3: on either curve and whatever the reserves, a bag with more than one
\* entry, or whose unit is not a pool unit, fails with InvalidInput.
C3_InvalidInput ==
    (Called /\ (Len(asset) > 1 \/ asset[1].unit \notin {pool.unit_a, pool.unit_b})) =>
        result.status = "InvalidInput"

\* C4: when numerator // denominator is 0 (numerator < denominator) the
\* constant-product quote returns
\* exactly (0, 0) without reaching the price-impact division, and whenever
\* that division is reached its divisor
\* reserve_out * q * denominator * 10000 is not zero.
C4_ZeroShortCircuit ==
    (ConstantProduct /\ Called /\ SingleOfPool /\ Den # <<>>) =>
        /\ BigLess(Num, Den) =>
              /\ Returned
              /\ result.out = <<[unit |-> UOut, qty |-> 0]>>
              /\ result.price_impact = FxZero
              /\ ~result.divided
        /\ result.divided =>
              /\ result.price_denominator # <<>>
              /\ result.price_denominator =
                    BigMul(BigMul(BigMul(Big(ROut), Big(Q)), Den),
                           Big(FEE_DENOMINATOR))

\* C4 witness: a positive input against a positive reserve_out that is too
\* small to buy one unit.
C4_Witness ==
    /\ ConstantProduct /\ Called /\ SingleOfPool /\ Returned
    /\ Q > 0 /\ ROut > 0
    /\ BigLess(Num, Den)
    /\ AmountOut = 0

\* C5: for fixed reserves, fee and input side the constant-product
\* amount_out is non-decreasing in the input quantity: every positive
\* quantity up to the quoted one buys no more than the quoted one did.
C5_Monotonic ==
    (ConstantProduct /\ Called /\ SingleOfPool /\ Q >= 1) =>
        /\ Returned
        /\ \A q1 \in 1..Q :
              LET r1 == ConstantProductGetAmountOut(pool, Assets(asset[1].unit, q1))
              IN  r1.status = "ok" /\ r1.out[1].qty <= AmountOut

\* C5 witness: a quote that buys strictly more than the quote of one unit.
C5_Witness ==
    /\ ConstantProduct /\ Called /\ SingleOfPool /\ Q >= 2 /\ Returned
    /\ ConstantProductGetAmountOut(pool, Assets(asset[1].unit, 1)).out[1].qty < AmountOut

\* C6: over any sequence of pool_datum accesses, with a raw encoding the
\* decoder runs on the first access only, its result is stored in
\* datum_parsed and every later access returns that stored value; without
\* a raw encoding every access fails with MissingDatum and leaves the cache
\* undecoded.
C6_LazyCache ==
    /\ \A i \in 1..Len(accesses) :
          /\ accesses[i].status \in {"ok", "MissingDatum"}
          /\ accesses[i].decoded => (i = 1 /\ datum_cbor # NoCbor)
          /\ accesses[i].status = "ok" =>
                /\ datum_cbor # NoCbor
                /\ datum_parsed = from_cbor(datum_cbor)
                /\ accesses[i].value = datum_parsed
          /\ accesses[i].status = "MissingDatum" =>
                /\ datum_cbor = NoCbor
                /\ datum_parsed = None
    /\ (Len(accesses) >= 1 /\ datum_cbor # NoCbor) =>
          (accesses[1].decoded /\ accesses[1].status = "ok")

\* C6 witness: a second access answered from the cache the first one filled.
C6_Witness ==
    /\ Len(accesses) >= 2
    /\ accesses[1].decoded
    /\ accesses[2].status = "ok"
    /\ ~accesses[2].decoded
    /\ accesses[2].value = accesses[1].value

\* C7: every get_amount_out call, on either curve, either returns a quote or
\* fails with InvalidInput; nothing else, such as a division by zero,
\* happens.
C7_OnlyValidationErrors ==
    Called => result.status \in {"ok", "InvalidInput"}

\* C8: for a stable-swap pool with both reserves 0, _get_D returns 0 and a
\* quote of a single-entry bag of a pool unit, of any non-negative quantity,
\* raises no division by zero.
C8_DegenerateStableSwap ==
    (StableSwap /\ pool.reserve_a = 0 /\ pool.reserve_b = 0) =>
        /\ get_D(pool) = Value(FxZero)
        /\ (Called /\ SingleOfPool) => result.status # "ZeroDivisionError"

\* C9: a get_amount_out call leaves the pool's fields, its datum and the
\* caller's bag unchanged, and a repeated call with the same bag gives the
\* same outcome, output bag and price impact.
C9_PureQuote ==
    [][ (calls' = calls + 1) =>
            /\ pool' = pool
            /\ datum_cbor' = datum_cbor
            /\ datum_parsed' = datum_parsed
            /\ asset' = asset
            /\ Called =>
                  /\ result'.status = result.status
                  /\ result'.out = result.out
                  /\ result'.price_impact = result.price_impact ]_vars

\* C9 witness: a stable-swap quote, whose result bag is overwritten, made
\* twice with the same bag.
C9_Witness ==
    /\ StableSwap /\ calls >= 2 /\ SingleOfPool /\ Returned
    /\ Q > 0
    /\ AmountOut > 0

\* C10 as stated: whenever the constant-product amount_out is not zero,
\* 0 <= price_numerator < price_denominator.
C10_ImpactBelowOne ==
    (ConstantProduct /\ Called /\ SingleOfPool /\ Returned /\ AmountOut # 0) =>
        /\ ~result.price_numerator.neg
        /\ BigLess(result.price_numerator.mag, result.price_denominator)

\* C10 amended: whenever the constant-product amount_out is not zero,
\* 0 <= price_numerator <= price_denominator, and price_numerator <
\* price_denominator unless reserve_in = 0 and volume_fee = 0.
C10_ImpactAtMostOne ==
    (ConstantProduct /\ Called /\ SingleOfPool /\ Returned /\ AmountOut # 0) =>
        /\ result.divided
        /\ ~result.price_numerator.neg
        /\ ~result.price_impact.neg
        /\ BigLeq(result.price_numerator.mag, result.price_denominator)
        /\ (RIn > 0 \/ pool.volume_fee > 0) =>
              /\ BigLess(result.price_numerator.mag, result.price_denominator)
              /\ FxAbsLessOne(result.price_impact)

\* C10 witness: a quote against a positive reserve_in with a positive price
\* impact.
C10_Witness ==
    /\ ConstantProduct /\ Called /\ SingleOfPool /\ Returned /\ AmountOut # 0
    /\ RIn > 0
    /\ result.price_numerator.mag # <<>>
====
